---- MODULE Spec2Model ----
(***************************************************************************)
(* Model of src/scripts/file_to_image.py (Alt-Desktop): the command line   *)
(* entry point main, the embedded-icon path exe_to_image and the shell     *)
(* icon path default_icon_to_image (resolver loop, off-screen renderer,    *)
(* BGRA decode, resize/save and the cleanup block).                        *)
(*                                                                         *)
(* Every native call and every external-library call is one step; the     *)
(* platform's and the libraries' answers are nondeterministic choices.     *)
(***************************************************************************)
EXTENDS Integers, Sequences, FiniteSets, TLC

VARIABLES
    pc,            \* position of the single thread of control
    entry,         \* "none" | "main" | "direct": who called default_icon_to_image
    argv,          \* sys.argv (argv[1] is the script name)
    file_type,     \* sys.argv[1]
    output_path,   \* the output_path parameter
    icon_size,     \* the icon_size parameter (an integer)
    retries,       \* the retries parameter
    attempt,       \* number of loop iterations of line 76 started so far
    shq,           \* shell queries of the current get_icon_handle call:
                   \* <<[kind, res, h]>>, h the value left in shfileinfo.hIcon
    queries,       \* total number of SHGetFileInfoW calls
    allFailed,     \* history: every SHGetFileInfoW call so far returned 0
    firstValid,    \* history: <<attempt, handle>> of the first in-range handle yielded, or <<>>
    shellIcons,    \* history: number of non-null icon handles the shell handed out
    hicon,         \* local hicon (NullHandle models None / NULL)
    hdc,           \* local hdc (0 is NULL)
    hdc_mem,       \* local hdc_mem
    hbmp,          \* local hbmp
    old_bmp,       \* local old_bmp
    selected,      \* platform: the bitmap currently selected into hdc_mem
    acq,           \* per resource: number of handles the operation came to own (for
                   \* "icon": the handle the resolver accepted)
    rel,           \* per resource: number of release calls made on a non-null handle
    log,           \* sequence of renderer / codec / collaborator / release calls and
                   \* of the reports printed by the except clauses of the two workers
    buffer,        \* local buffer (raw bytes), <<>> before it is allocated
    img,           \* decoded image, or NoImage
    written,       \* an image file was written to output_path
    result,        \* value returned by exe_to_image / default_icon_to_image
    err,           \* exception in flight or propagated, "none" if none
    errCode,       \* error code carried by the exception (-1 if none)
    platformError, \* the thread's GetLastError value
    exitStatus     \* process exit status, -1 while running

vars == <<pc, entry, argv, file_type, output_path, icon_size, retries, attempt,
          shq, queries, allFailed, firstValid, shellIcons, hicon, hdc, hdc_mem,
          hbmp, old_bmp, selected, acq, rel, log, buffer, img, written, result,
          err, errCode, platformError, exitStatus>>

(***************************************************************************)
(* Bounds of the model                                                     *)
(***************************************************************************)
\* largest retry budget of a direct call of default_icon_to_image
MaxRetries == 3
\* render surface used by the model (the program's is 32 x 32)
ModelWidth == 2
ModelHeight == 2

(***************************************************************************)
(* Program constants                                                       *)
(***************************************************************************)
\* retries=5, the default of default_icon_to_image
DefaultRetries == 5
\* Handles are 64-bit quantities; a handle value v is the pair
\* <<v \div 65536, v % 65536>>, ordered as the numbers are.
NullHandle == <<0, 0>>
HandleLeq(a, b) == a[1] < b[1] \/ (a[1] = b[1] /\ a[2] <= b[2])
\* 2**32-1, the upper end of the accepted handle range
MaxHandle == <<65535, 65535>>
\* len(sys.argv) != 5
ExpectedArgc == 5
\* "assets/images/unknown.png"
FallbackPath == "assets/images/unknown.png"

None == "<None>"
Unset == "<unset>"
NoImage == [width |-> 0, height |-> 0, pixels |-> <<>>]

Resources == {"bitmap", "memdc", "screendc", "icon"}

\* values the shell may leave in shfileinfo.hIcon
HandleVals == {NullHandle, <<0, 1>>, MaxHandle, <<65536, 0>>}
\* values of the thread's last-error code after a failed draw
LastErrors == {6, 1402}
\* sample byte values
ByteVals == {0, 1, 255}

(***************************************************************************)
(* int(sys.argv[4]): the size argument is a sequence of characters         *)
(***************************************************************************)
Digits == {"0", "1", "2", "3", "4", "5", "6", "7", "8", "9"}

DigitVal(c) ==
    CASE c = "0" -> 0 [] c = "1" -> 1 [] c = "2" -> 2 [] c = "3" -> 3
      [] c = "4" -> 4 [] c = "5" -> 5 [] c = "6" -> 6 [] c = "7" -> 7
      [] c = "8" -> 8 [] c = "9" -> 9

HasSign(s) == Len(s) > 0 /\ s[1] \in {"+", "-"}

Unsigned(s) == IF HasSign(s) THEN Tail(s) ELSE s

\* int() accepts an optional sign followed by at least one digit
IsIntLiteral(s) ==
    /\ Len(Unsigned(s)) > 0
    /\ \A i \in 1..Len(Unsigned(s)) : Unsigned(s)[i] \in Digits

RECURSIVE DigitsValue(_)
DigitsValue(s) ==
    IF s = <<>> THEN 0
    ELSE 10 * DigitsValue(SubSeq(s, 1, Len(s) - 1)) + DigitVal(s[Len(s)])

ParseInt(s) ==
    IF HasSign(s) /\ s[1] = "-" THEN 0 - DigitsValue(Unsigned(s))
    ELSE DigitsValue(Unsigned(s))

\* Python truthiness of a returned path (None and "" are falsy)
Truthy(r) == r # None /\ r # ""

\* mutant: only "if hicon", the range test is missing
ValidHandle_NonNullOnly(h) == h # NullHandle

\* hicon and 0 <= hicon <= 2**32-1
ValidHandle(h) == h # NullHandle /\ HandleLeq(NullHandle, h) /\ HandleLeq(h, MaxHandle)

(***************************************************************************)
(* Inputs                                                                  *)
(***************************************************************************)
Modes == {"exe", "default", "ico"}
OutputPaths == {"out.png", FallbackPath}
SizeArgs == {<<"4", "8">>, <<"0">>, <<"x">>, <<"-", "5">>, <<>>}
Script == "file_to_image.py"

Argvs ==
    {<<Script, m, "file.xyz", o, s>> : m \in Modes, o \in OutputPaths, s \in SizeArgs}
    \cup {<<Script>>,
          <<Script, "default", "file.xyz", "out.png">>,
          <<Script, "default", "file.xyz", "out.png", <<"4", "8">>, "extra">>}

(***************************************************************************)
(* Initial state: nothing called yet                                       *)
(***************************************************************************)
Init ==
    /\ pc = "start"
    /\ entry = "none"
    /\ argv = <<>>
    /\ file_type = Unset
    /\ output_path = Unset
    /\ icon_size = 0
    /\ retries = 0
    /\ attempt = 0
    /\ shq = <<>>
    /\ queries = 0
    /\ allFailed = TRUE
    /\ firstValid = <<>>
    /\ shellIcons = 0
    /\ hicon = NullHandle
    /\ hdc = 0
    /\ hdc_mem = 0
    /\ hbmp = 0
    /\ old_bmp = 0
    /\ selected = 0
    /\ acq = [r \in Resources |-> 0]
    /\ rel = [r \in Resources |-> 0]
    /\ log = <<>>
    /\ buffer = <<>>
    /\ img = NoImage
    /\ written = FALSE
    /\ result = Unset
    /\ err = "none"
    /\ errCode = -1
    /\ platformError = 0
    /\ exitStatus = -1

resolverVars == <<attempt, shq, queries, allFailed, firstValid, shellIcons, hicon>>
rendererVars == <<hdc, hdc_mem, hbmp, old_bmp, selected, acq, rel, log, buffer, img,
                  platformError>>
callVars == <<entry, argv, file_type, output_path, icon_size, retries>>
outcomeVars == <<written, result, err, errCode>>

(***************************************************************************)
(* main                                                                    *)
(***************************************************************************)
\* the process is started with some command line
StartMain ==
    /\ pc = "start"
    /\ \E a \in Argvs : argv' = a
    /\ entry' = "main"
    /\ pc' = "main_argc"
    /\ UNCHANGED <<file_type, output_path, icon_size, retries, exitStatus>>
    /\ UNCHANGED <<resolverVars, rendererVars, outcomeVars>>

\* if len(sys.argv) != 5: sys.exit(1)
MainCheckArgc ==
    /\ pc = "main_argc"
    /\ IF Len(argv) # ExpectedArgc
       THEN /\ pc' = "exited"
            /\ exitStatus' = 1
            /\ UNCHANGED <<file_type, output_path>>
       ELSE /\ pc' = "main_size"
            /\ file_type' = argv[2]
            /\ output_path' = argv[4]
            /\ UNCHANGED exitStatus
    /\ UNCHANGED <<entry, argv, icon_size, retries>>
    /\ UNCHANGED <<resolverVars, rendererVars, outcomeVars>>

\* icon_size = int(sys.argv[4]); except ValueError: sys.exit(1)
MainParseSize ==
    /\ pc = "main_size"
    /\ IF IsIntLiteral(argv[5])
       THEN /\ icon_size' = ParseInt(argv[5])
            /\ pc' = "main_match"
            /\ UNCHANGED exitStatus
       ELSE /\ pc' = "exited"
            /\ exitStatus' = 1
            /\ UNCHANGED icon_size
    /\ UNCHANGED <<entry, argv, file_type, output_path, retries>>
    /\ UNCHANGED <<resolverVars, rendererVars, outcomeVars>>

\* mutant: the "case _" arm is missing and any other selector runs the default path
MainDispatch_NoCatchAll ==
    /\ pc = "main_match"
    /\ IF file_type = "exe"
       THEN /\ pc' = "exe_extract"
            /\ UNCHANGED retries
       ELSE /\ pc' = "loop"
            /\ retries' = DefaultRetries
    /\ UNCHANGED <<entry, argv, file_type, output_path, icon_size, exitStatus>>
    /\ UNCHANGED <<resolverVars, rendererVars, outcomeVars>>

\* match file_type
MainDispatch ==
    /\ pc = "main_match"
    /\ CASE file_type = "exe" ->
              /\ pc' = "exe_extract"
              /\ UNCHANGED <<retries, exitStatus>>
         [] file_type = "default" ->
              /\ pc' = "loop"
              /\ retries' = DefaultRetries
              /\ UNCHANGED exitStatus
         [] OTHER ->
              /\ pc' = "exited"
              /\ exitStatus' = 1
              /\ UNCHANGED retries
    /\ UNCHANGED <<entry, argv, file_type, output_path, icon_size>>
    /\ UNCHANGED <<resolverVars, rendererVars, outcomeVars>>

\* if result: sys.exit(0) else: sys.exit(2)
MainExit ==
    /\ pc = "returned"
    /\ entry = "main"
    /\ pc' = "exited"
    /\ exitStatus' = IF Truthy(result) THEN 0 ELSE 2
    /\ UNCHANGED <<callVars, resolverVars, rendererVars, outcomeVars>>

\* an exception leaves main uncaught: traceback, exit status 1
MainUncaught ==
    /\ pc = "raised"
    /\ entry = "main"
    /\ pc' = "crashed"
    /\ exitStatus' = 1
    /\ UNCHANGED <<callVars, resolverVars, rendererVars, outcomeVars>>

(***************************************************************************)
(* exe_to_image                                                            *)
(***************************************************************************)
\* mutant: the except clauses re-raise instead of falling through
ExeReturnNone_Propagates ==
    /\ pc' = "raised"
    /\ err' = "Exception"
    /\ UNCHANGED <<written, result, errCode>>

\* the except clauses of exe_to_image: print, fall through to return None
ExeReturnNone ==
    /\ pc' = "returned"
    /\ result' = None
    /\ UNCHANGED <<written, err, errCode>>

\* extractor = IconExtractor(exe_path); data = extractor.get_icon(num=0)
ExeExtract ==
    /\ pc = "exe_extract"
    /\ \E outcome \in {"ok", "IconExtractorError", "Exception"} :
          IF outcome = "ok"
          THEN /\ pc' = "exe_resize"
               /\ log' = Append(log, "get_icon")
               /\ UNCHANGED outcomeVars
          ELSE /\ ExeReturnNone
               /\ log' = Append(log, "print " \o outcome)
    /\ UNCHANGED <<hdc, hdc_mem, hbmp, old_bmp, selected, acq, rel, buffer, img,
                   platformError>>
    /\ UNCHANGED <<callVars, resolverVars, exitStatus>>

\* im = Image.open(data); img_resized = im.resize(...)
ExeOpenResize ==
    /\ pc = "exe_resize"
    /\ \E ok \in BOOLEAN :
          IF ok /\ icon_size > 0
          THEN /\ pc' = "exe_save"
               /\ log' = Append(log, "resize")
               /\ UNCHANGED outcomeVars
          ELSE /\ ExeReturnNone
               /\ log' = Append(log, "print Exception")
    /\ UNCHANGED <<hdc, hdc_mem, hbmp, old_bmp, selected, acq, rel, buffer, img,
                   platformError>>
    /\ UNCHANGED <<callVars, resolverVars, exitStatus>>

\* img_resized.save(output_path); return output_path
ExeSave ==
    /\ pc = "exe_save"
    /\ \E ok \in BOOLEAN :
          IF ok
          THEN /\ pc' = "returned"
               /\ written' = TRUE
               /\ result' = output_path
               /\ log' = Append(log, "save")
               /\ UNCHANGED <<err, errCode>>
          ELSE /\ ExeReturnNone
               /\ log' = Append(log, "print Exception")
    /\ UNCHANGED <<hdc, hdc_mem, hbmp, old_bmp, selected, acq, rel, buffer, img,
                   platformError>>
    /\ UNCHANGED <<callVars, resolverVars, exitStatus>>

(***************************************************************************)
(* default_icon_to_image: the resolver loop                                *)
(***************************************************************************)
\* default_icon_to_image called by another module with its own retry budget
CallDirect ==
    /\ pc = "start"
    /\ entry' = "direct"
    /\ \E n \in 1..MaxRetries : retries' = n
    /\ \E o \in OutputPaths : output_path' = o
    /\ \E z \in {0, 48} : icon_size' = z
    /\ pc' = "loop"
    /\ UNCHANGED <<argv, file_type, exitStatus>>
    /\ UNCHANGED <<resolverVars, rendererVars, outcomeVars>>

\* mutant: one iteration too many
LoopGuard_OffByOne == attempt <= retries

\* for attempt in range(retries)
LoopGuard == attempt < retries

\* bookkeeping of one SHGetFileInfoW call of attempt a that returned res and left h in hIcon
ShellAnswered(a, kind, res, h) ==
    /\ queries' = queries + 1
    /\ shq' = (IF kind = "primary" THEN <<>> ELSE shq) \o <<[kind |-> kind, res |-> res, h |-> h]>>
    /\ allFailed' = (allFailed /\ res = 0)
    /\ shellIcons' = IF res # 0 /\ h # NullHandle THEN shellIcons + 1 ELSE shellIcons
    /\ firstValid' = IF res # 0 /\ ValidHandle(h) /\ firstValid = <<>>
                     THEN <<a, h>> ELSE firstValid

\* mutant: get_icon_handle returns None at once when the primary query fails
QueryPrimary_NoFallback ==
    /\ pc = "loop"
    /\ LoopGuard
    /\ attempt' = attempt + 1
    /\ \E res \in {0, 1} :
          IF res = 0
          THEN /\ ShellAnswered(attempt + 1, "primary", 0, NullHandle)
               /\ pc' = "check"
               /\ hicon' = NullHandle
          ELSE \E h \in HandleVals :
               /\ ShellAnswered(attempt + 1, "primary", res, h)
               /\ hicon' = h
               /\ pc' = "check"
    /\ UNCHANGED <<callVars, rendererVars, outcomeVars, exitStatus>>

\* get_icon_handle: the primary SHGetFileInfoW query
QueryPrimary ==
    /\ pc = "loop"
    /\ LoopGuard
    /\ attempt' = attempt + 1
    /\ \E res \in {0, 1} :
          IF res = 0
          THEN /\ ShellAnswered(attempt + 1, "primary", 0, NullHandle)
               /\ pc' = "fallback"
               /\ UNCHANGED hicon
          ELSE \E h \in HandleVals :
               /\ ShellAnswered(attempt + 1, "primary", res, h)
               /\ hicon' = h
               /\ pc' = "check"
    /\ UNCHANGED <<callVars, rendererVars, outcomeVars, exitStatus>>

\* get_icon_handle: the query with FILE_ATTRIBUTE_NORMAL, made when the primary returned 0
QueryFallback ==
    /\ pc = "fallback"
    /\ \E res \in {0, 1} :
          IF res = 0
          THEN /\ ShellAnswered(attempt, "fallback", 0, NullHandle)
               /\ hicon' = NullHandle
               /\ pc' = "check"
          ELSE \E h \in HandleVals :
               /\ ShellAnswered(attempt, "fallback", res, h)
               /\ hicon' = h
               /\ pc' = "check"
    /\ UNCHANGED <<callVars, attempt, rendererVars, outcomeVars, exitStatus>>

\* mutant: the break is missing, the loop goes on after an accepted handle
CheckHandle_NoBreak ==
    /\ pc = "check"
    /\ pc' = "loop"
    /\ hicon' = IF ValidHandle(hicon) THEN hicon ELSE NullHandle
    /\ UNCHANGED <<attempt, shq, queries, allFailed, firstValid, shellIcons>>
    /\ UNCHANGED <<callVars, rendererVars, outcomeVars, exitStatus>>

\* if hicon and 0 <= hicon <= 2**32-1: break  else: hicon = None
CheckHandle ==
    /\ pc = "check"
    /\ IF ValidHandle(hicon)
       THEN /\ pc' = "afterloop"
            /\ acq' = [acq EXCEPT !["icon"] = @ + 1]
            /\ UNCHANGED hicon
       ELSE /\ pc' = "loop"
            /\ hicon' = NullHandle
            /\ UNCHANGED acq
    /\ UNCHANGED <<attempt, shq, queries, allFailed, firstValid, shellIcons>>
    /\ UNCHANGED <<hdc, hdc_mem, hbmp, old_bmp, selected, rel, log, buffer, img,
                   platformError>>
    /\ UNCHANGED <<callVars, outcomeVars, exitStatus>>

\* the for loop runs out of attempts
LoopExhausted ==
    /\ pc = "loop"
    /\ ~LoopGuard
    /\ pc' = "afterloop"
    /\ UNCHANGED <<callVars, resolverVars, rendererVars, outcomeVars, exitStatus>>

\* mutant: the screen DC is fetched before the "if not hicon" test
ReturnFallback_AfterGetDC ==
    /\ pc = "afterloop"
    /\ hicon = NullHandle
    /\ result' = FallbackPath
    /\ pc' = "returned"
    /\ hdc' = 11
    /\ acq' = [acq EXCEPT !["screendc"] = @ + 1]
    /\ log' = Append(log, "GetDC")
    /\ UNCHANGED <<written, err, errCode>>
    /\ UNCHANGED <<hdc_mem, hbmp, old_bmp, selected, rel, buffer, img, platformError>>
    /\ UNCHANGED <<callVars, resolverVars, exitStatus>>

\* if not hicon: return "assets/images/unknown.png"
ReturnFallback ==
    /\ pc = "afterloop"
    /\ hicon = NullHandle
    /\ result' = FallbackPath
    /\ pc' = "returned"
    /\ UNCHANGED <<written, err, errCode>>
    /\ UNCHANGED <<callVars, resolverVars, rendererVars, exitStatus>>

(***************************************************************************)
(* PixelBuffer codec: Image.frombuffer('RGBA', size, buffer, 'raw',       *)
(* 'BGRA', 0, 1) -- packed rows (stride 0), first row on top (orientation 1)*)
(***************************************************************************)
\* the byte of channel k (1..4) of the pixel at (row, col); sequences are 1-based
RawByte(buf, w, row, col, k) == buf[4 * (row * w + col) + k]

\* mutant: the raw mode is taken to be RGBA, the channels are not reordered
DecodePixel_NoSwap(buf, w, row, col) ==
    <<RawByte(buf, w, row, col, 1), RawByte(buf, w, row, col, 2),
      RawByte(buf, w, row, col, 3), RawByte(buf, w, row, col, 4)>>

\* raw bytes (B, G, R, A) -> pixel (R, G, B, A)
DecodePixel(buf, w, row, col) ==
    <<RawByte(buf, w, row, col, 3), RawByte(buf, w, row, col, 2),
      RawByte(buf, w, row, col, 1), RawByte(buf, w, row, col, 4)>>

Decode(buf, w, h) ==
    [width |-> w, height |-> h,
     pixels |-> [p \in (0..(h - 1)) \X (0..(w - 1)) |-> DecodePixel(buf, w, p[1], p[2])]]

\* buffer = (ctypes.c_char * (width * height * 4))(): zero-initialised
ZeroBuffer(w, h) == [i \in 1..(4 * w * h) |-> 0]

\* a buffer filled with byte f whose pixel number n holds the bytes px
PixelBuffer(w, h, f, n, px) ==
    [i \in 1..(4 * w * h) |-> IF (i - 1) \div 4 = n THEN px[((i - 1) % 4) + 1] ELSE f]

\* what a successful GetDIBits may leave in the buffer (a sample)
SampleBuffers == {PixelBuffer(ModelWidth, ModelHeight, 0, 1, <<1, 0, 255, 255>>)}

(***************************************************************************)
(* default_icon_to_image: the off-screen renderer                          *)
(***************************************************************************)
\* a call that hands out a resource counts when the handle it returns is not NULL;
\* a release call counts when it is made on a handle that is not NULL
Acquire(r, nonnull) == acq' = [acq EXCEPT ![r] = @ + (IF nonnull THEN 1 ELSE 0)]
Release(r, nonnull) == rel' = [rel EXCEPT ![r] = @ + (IF nonnull THEN 1 ELSE 0)]

\* ctypes.get_last_error(): ctypes' private copy of the error code, which
\* ctypes.windll (use_last_error=False) never updates
CtypesLastError == 0

\* hdc = user32.GetDC(0)
GetScreenDC ==
    /\ pc = "afterloop"
    /\ hicon # NullHandle
    /\ \E h \in {0, 11} :
          /\ hdc' = h
          /\ Acquire("screendc", h # 0)
    /\ log' = Append(log, "GetDC")
    /\ pc' = "createdc"
    /\ UNCHANGED <<hdc_mem, hbmp, old_bmp, selected, rel, buffer, img, platformError>>
    /\ UNCHANGED <<callVars, resolverVars, outcomeVars, exitStatus>>

\* hdc_mem = gdi32.CreateCompatibleDC(hdc); a new memory DC holds a stock bitmap
CreateMemDC ==
    /\ pc = "createdc"
    /\ \E h \in {0, 12} :
          /\ hdc_mem' = h
          /\ Acquire("memdc", h # 0)
          /\ selected' = IF h # 0 THEN 14 ELSE 0
    /\ log' = Append(log, "CreateCompatibleDC")
    /\ pc' = "createbmp"
    /\ UNCHANGED <<hdc, hbmp, old_bmp, rel, buffer, img, platformError>>
    /\ UNCHANGED <<callVars, resolverVars, outcomeVars, exitStatus>>

\* hbmp = gdi32.CreateCompatibleBitmap(hdc, width, height); if not hbmp: ...
CreateBitmap ==
    /\ pc = "createbmp"
    /\ \E h \in (IF hdc = 0 THEN {0} ELSE {0, 13}) :
          /\ hbmp' = h
          /\ Acquire("bitmap", h # 0)
          /\ pc' = IF h = 0 THEN "bmpfail_deldc" ELSE "select"
    /\ log' = Append(log, "CreateCompatibleBitmap")
    /\ UNCHANGED <<hdc, hdc_mem, old_bmp, selected, rel, buffer, img, platformError>>
    /\ UNCHANGED <<callVars, resolverVars, outcomeVars, exitStatus>>

\* gdi32.DeleteDC(hdc_mem) on the bitmap-failure path
BitmapFailDeleteDC ==
    /\ pc = "bmpfail_deldc"
    /\ Release("memdc", hdc_mem # 0)
    /\ selected' = 0
    /\ log' = Append(log, "DeleteDC")
    /\ pc' = "bmpfail_reldc"
    /\ UNCHANGED <<hdc, hdc_mem, hbmp, old_bmp, acq, buffer, img, platformError>>
    /\ UNCHANGED <<callVars, resolverVars, outcomeVars, exitStatus>>

\* user32.ReleaseDC(0, hdc); raise ValueError("Failed to create a compatible bitmap.")
BitmapFailReleaseDC ==
    /\ pc = "bmpfail_reldc"
    /\ Release("screendc", hdc # 0)
    /\ log' = Append(log, "ReleaseDC")
    /\ err' = "ValueError"
    /\ pc' = "raised"
    /\ UNCHANGED <<hdc, hdc_mem, hbmp, old_bmp, selected, acq, buffer, img, platformError>>
    /\ UNCHANGED <<written, result, errCode>>
    /\ UNCHANGED <<callVars, resolverVars, exitStatus>>

\* old_bmp = gdi32.SelectObject(hdc_mem, hbmp)
SelectBitmap ==
    /\ pc = "select"
    /\ old_bmp' = IF hdc_mem # 0 THEN selected ELSE 0
    /\ selected' = IF hdc_mem # 0 THEN hbmp ELSE selected
    /\ log' = Append(log, "SelectObject")
    /\ pc' = "draw"
    /\ UNCHANGED <<hdc, hdc_mem, hbmp, acq, rel, buffer, img, platformError>>
    /\ UNCHANGED <<callVars, resolverVars, outcomeVars, exitStatus>>

\* success = user32.DrawIconEx(...); if not success: raise ctypes.WinError(ctypes.get_last_error())
DrawIcon ==
    /\ pc = "draw"
    /\ \E success \in (IF hdc_mem = 0 THEN {FALSE} ELSE BOOLEAN) :
          IF success
          THEN /\ pc' = "readback"
               /\ UNCHANGED <<platformError, err, errCode>>
          ELSE /\ \E e \in LastErrors : platformError' = e
               /\ err' = "WinError"
               /\ errCode' = CtypesLastError
               /\ pc' = "fin_restore"
    /\ log' = Append(log, "DrawIconEx")
    /\ UNCHANGED <<hdc, hdc_mem, hbmp, old_bmp, selected, acq, rel, buffer, img>>
    /\ UNCHANGED <<written, result>>
    /\ UNCHANGED <<callVars, resolverVars, exitStatus>>

\* mutant: the result of GetDIBits is tested and a zero result raises
ReadBack_Checked ==
    /\ pc = "readback"
    /\ \E ok \in BOOLEAN :
          IF ok
          THEN /\ \E b \in SampleBuffers : buffer' = b
               /\ log' = Append(log, "GetDIBits")
               /\ pc' = "decode"
               /\ UNCHANGED outcomeVars
          ELSE /\ buffer' = ZeroBuffer(ModelWidth, ModelHeight)
               /\ log' = Append(log, "GetDIBits failed")
               /\ pc' = "fin_restore"
               /\ err' = "WinError"
               /\ errCode' = CtypesLastError
               /\ UNCHANGED <<written, result>>
    /\ UNCHANGED <<hdc, hdc_mem, hbmp, old_bmp, selected, acq, rel, img, platformError>>
    /\ UNCHANGED <<callVars, resolverVars, exitStatus>>

\* buffer = ...(); gdi32.GetDIBits(hdc_mem, hbmp, 0, height, buffer, bmp_info, 0)
ReadBack ==
    /\ pc = "readback"
    /\ \E ok \in BOOLEAN :
          IF ok
          THEN /\ \E b \in SampleBuffers : buffer' = b
               /\ log' = Append(log, "GetDIBits")
          ELSE /\ buffer' = ZeroBuffer(ModelWidth, ModelHeight)
               /\ log' = Append(log, "GetDIBits failed")
    /\ pc' = "decode"
    /\ UNCHANGED <<hdc, hdc_mem, hbmp, old_bmp, selected, acq, rel, img, platformError>>
    /\ UNCHANGED <<callVars, resolverVars, outcomeVars, exitStatus>>

\* img = Image.frombuffer('RGBA', (width, height), buffer, 'raw', 'BGRA', 0, 1)
DecodeImage ==
    /\ pc = "decode"
    /\ img' = Decode(buffer, ModelWidth, ModelHeight)
    /\ log' = Append(log, "frombuffer")
    /\ pc' = "resize"
    /\ UNCHANGED <<hdc, hdc_mem, hbmp, old_bmp, selected, acq, rel, buffer, platformError>>
    /\ UNCHANGED <<callVars, resolverVars, outcomeVars, exitStatus>>

\* img_resized = img.resize((icon_size, icon_size), LANCZOS): raises for a size <= 0
ResizeImage ==
    /\ pc = "resize"
    /\ \E ok \in BOOLEAN :
          IF ok /\ icon_size > 0
          THEN /\ pc' = "save"
               /\ log' = Append(log, "resize")
               /\ UNCHANGED outcomeVars
          ELSE /\ pc' = "fin_restore"
               /\ log' = Append(log, "resize raised")
               /\ err' = "Exception"
               /\ UNCHANGED <<written, result, errCode>>
    /\ UNCHANGED <<hdc, hdc_mem, hbmp, old_bmp, selected, acq, rel, buffer, img,
                   platformError>>
    /\ UNCHANGED <<callVars, resolverVars, exitStatus>>

\* mutant: the save is made after the try statement, outside its finally
SaveImage_OutsideTry ==
    /\ pc = "save"
    /\ \E ok \in BOOLEAN :
          IF ok
          THEN /\ written' = TRUE
               /\ log' = Append(log, "save")
               /\ pc' = "fin_restore"
               /\ UNCHANGED <<result, err, errCode>>
          ELSE /\ err' = "Exception"
               /\ log' = Append(log, "save raised")
               /\ pc' = "raised"
               /\ UNCHANGED <<written, result, errCode>>
    /\ UNCHANGED <<hdc, hdc_mem, hbmp, old_bmp, selected, acq, rel, buffer, img,
                   platformError>>
    /\ UNCHANGED <<callVars, resolverVars, exitStatus>>

\* img_resized.save(output_path)
SaveImage ==
    /\ pc = "save"
    /\ \E ok \in BOOLEAN :
          IF ok
          THEN /\ written' = TRUE
               /\ log' = Append(log, "save")
               /\ UNCHANGED <<result, err, errCode>>
          ELSE /\ err' = "Exception"
               /\ log' = Append(log, "save raised")
               /\ UNCHANGED <<written, result, errCode>>
    /\ pc' = "fin_restore"
    /\ UNCHANGED <<hdc, hdc_mem, hbmp, old_bmp, selected, acq, rel, buffer, img,
                   platformError>>
    /\ UNCHANGED <<callVars, resolverVars, exitStatus>>

(***************************************************************************)
(* default_icon_to_image: the finally block                                *)
(***************************************************************************)
\* mutant: lines 124 and 125 exchanged, the bitmap is deleted before the restore
RestoreSelect_AfterDelete ==
    /\ pc = "fin_restore"
    /\ selected' = IF hdc_mem # 0 /\ old_bmp # 0 THEN old_bmp ELSE selected
    /\ IF selected = hbmp
       THEN /\ log' = log \o <<"DeleteObject while selected", "SelectObject restore">>
            /\ UNCHANGED rel
       ELSE /\ log' = log \o <<"DeleteObject", "SelectObject restore">>
            /\ Release("bitmap", hbmp # 0)
    /\ pc' = "fin_deldc"
    /\ UNCHANGED <<hdc, hdc_mem, hbmp, old_bmp, acq, buffer, img, platformError>>
    /\ UNCHANGED <<callVars, resolverVars, outcomeVars, exitStatus>>

\* gdi32.SelectObject(hdc_mem, old_bmp)
RestoreSelect ==
    /\ pc = "fin_restore"
    /\ selected' = IF hdc_mem # 0 /\ old_bmp # 0 THEN old_bmp ELSE selected
    /\ log' = Append(log, "SelectObject restore")
    /\ pc' = "fin_delbmp"
    /\ UNCHANGED <<hdc, hdc_mem, hbmp, old_bmp, acq, rel, buffer, img, platformError>>
    /\ UNCHANGED <<callVars, resolverVars, outcomeVars, exitStatus>>

\* mutant: the DeleteObject call is forgotten
DeleteBitmap_Forgotten ==
    /\ pc = "fin_delbmp"
    /\ pc' = "fin_deldc"
    /\ UNCHANGED <<callVars, resolverVars, rendererVars, outcomeVars, exitStatus>>

\* gdi32.DeleteObject(hbmp): the platform refuses a bitmap still selected into a DC
DeleteBitmap ==
    /\ pc = "fin_delbmp"
    /\ IF selected = hbmp
       THEN /\ log' = Append(log, "DeleteObject while selected")
            /\ UNCHANGED rel
       ELSE /\ log' = Append(log, "DeleteObject")
            /\ Release("bitmap", hbmp # 0)
    /\ pc' = "fin_deldc"
    /\ UNCHANGED <<hdc, hdc_mem, hbmp, old_bmp, selected, acq, buffer, img, platformError>>
    /\ UNCHANGED <<callVars, resolverVars, outcomeVars, exitStatus>>

\* gdi32.DeleteDC(hdc_mem)
DeleteMemDC ==
    /\ pc = "fin_deldc"
    /\ Release("memdc", hdc_mem # 0)
    /\ selected' = 0
    /\ log' = Append(log, "DeleteDC")
    /\ pc' = "fin_reldc"
    /\ UNCHANGED <<hdc, hdc_mem, hbmp, old_bmp, acq, buffer, img, platformError>>
    /\ UNCHANGED <<callVars, resolverVars, outcomeVars, exitStatus>>

\* user32.ReleaseDC(0, hdc)
ReleaseScreenDC ==
    /\ pc = "fin_reldc"
    /\ Release("screendc", hdc # 0)
    /\ log' = Append(log, "ReleaseDC")
    /\ pc' = "fin_icon"
    /\ UNCHANGED <<hdc, hdc_mem, hbmp, old_bmp, selected, acq, buffer, img, platformError>>
    /\ UNCHANGED <<callVars, resolverVars, outcomeVars, exitStatus>>

\* if hicon and 0 <= hicon <= 2**32-1: try: user32.DestroyIcon(hicon) except Exception: ...
DestroyIcon ==
    /\ pc = "fin_icon"
    /\ IF ValidHandle(hicon)
       THEN /\ Release("icon", hicon # NullHandle)
            /\ \E outcome \in {"DestroyIcon", "DestroyIcon raised"} :
                  log' = Append(log, outcome)
       ELSE UNCHANGED <<rel, log>>
    /\ pc' = "fin_exit"
    /\ UNCHANGED <<hdc, hdc_mem, hbmp, old_bmp, selected, acq, buffer, img, platformError>>
    /\ UNCHANGED <<callVars, resolverVars, outcomeVars, exitStatus>>

\* mutant: a return inside the finally block, which drops the exception in flight
FinallyExit_ReturnInFinally ==
    /\ pc = "fin_exit"
    /\ pc' = "returned"
    /\ result' = output_path
    /\ UNCHANGED <<written, err, errCode>>
    /\ UNCHANGED <<callVars, resolverVars, rendererVars, exitStatus>>

\* end of the finally block: re-raise the exception in flight, or return output_path
FinallyExit ==
    /\ pc = "fin_exit"
    /\ IF err # "none"
       THEN /\ pc' = "raised"
            /\ UNCHANGED result
       ELSE /\ pc' = "returned"
            /\ result' = output_path
    /\ UNCHANGED <<written, err, errCode>>
    /\ UNCHANGED <<callVars, resolverVars, rendererVars, exitStatus>>

(***************************************************************************)
(* The program                                                             *)
(***************************************************************************)
Next ==
    \/ StartMain
    \/ MainCheckArgc
    \/ MainParseSize
    \/ MainDispatch
    \/ MainExit
    \/ MainUncaught
    \/ ExeExtract
    \/ ExeOpenResize
    \/ ExeSave
    \/ CallDirect
    \/ QueryPrimary
    \/ QueryFallback
    \/ CheckHandle
    \/ LoopExhausted
    \/ ReturnFallback
    \/ GetScreenDC
    \/ CreateMemDC
    \/ CreateBitmap
    \/ BitmapFailDeleteDC
    \/ BitmapFailReleaseDC
    \/ SelectBitmap
    \/ DrawIcon
    \/ ReadBack
    \/ DecodeImage
    \/ ResizeImage
    \/ SaveImage
    \/ RestoreSelect
    \/ DeleteBitmap
    \/ DeleteMemDC
    \/ ReleaseScreenDC
    \/ DestroyIcon
    \/ FinallyExit

Spec == Init /\ [][Next]_vars

\* the call has ended: returned to or raised into a direct caller, or the process is gone
Ended ==
    \/ pc \in {"exited", "crashed"}
    \/ entry = "direct" /\ pc \in {"returned", "raised"}

TypeOK ==
    /\ pc \in {"start", "main_argc", "main_size", "main_match", "exe_extract",
               "exe_resize", "exe_save", "loop", "fallback", "check", "afterloop",
               "createdc", "createbmp", "bmpfail_deldc", "bmpfail_reldc", "select",
               "draw", "readback", "decode", "resize", "save", "fin_restore",
               "fin_delbmp", "fin_deldc", "fin_reldc", "fin_icon", "fin_exit",
               "returned", "raised", "exited", "crashed"}
    /\ entry \in {"none", "main", "direct"}
    /\ hicon \in HandleVals
    /\ attempt \in 0..retries
    /\ queries \in 0..(2 * attempt)
    /\ acq \in [Resources -> 0..1]
    /\ rel \in [Resources -> 0..1]
    /\ exitStatus \in {-1, 0, 1, 2}

(***************************************************************************)
(* Properties                                                              *)
(***************************************************************************)
GdiResources == {"bitmap", "memdc", "screendc"}

\* an exception of default_icon_to_image has reached its caller
ErrorSurfaced == pc \in {"raised", "crashed"}

\* every resource the operation came to own had exactly one release call
AllReleasedOnce == \A r \in Resources : rel[r] = acq[r] /\ rel[r] <= 1

\* C1: after a draw failure (DrawIconEx returned 0 with a resolved handle and a
\* created bitmap), when the error has reached the caller the bitmap, the memory
\* DC, the screen DC and the icon handle have each had exactly one release call:
\* none twice, none still held.
C1_DrawFailureReleasesAll ==
    (ErrorSurfaced /\ err = "WinError")
        => /\ acq["bitmap"] = 1 /\ acq["icon"] = 1
           /\ AllReleasedOnce

C1_Witness ==
    /\ pc = "raised"
    /\ err = "WinError"
    /\ \A r \in Resources : acq[r] = 1 /\ rel[r] = 1

\* C2: after a failed CreateCompatibleBitmap (ValueError), when the error has
\* reached the caller the memory DC, the screen DC and the icon handle obtained
\* by the resolver have each been released exactly once.
C2_BitmapFailureReleasesAll ==
    (ErrorSurfaced /\ err = "ValueError")
        => /\ acq["icon"] = 1
           /\ AllReleasedOnce

\* position of a release call in the prescribed order, 0 for any other call
ReleaseRank(e) ==
    CASE e = "SelectObject restore" -> 1
      [] e \in {"DeleteObject", "DeleteObject while selected"} -> 2
      [] e = "DeleteDC" -> 3
      [] e = "ReleaseDC" -> 4
      [] e \in {"DestroyIcon", "DestroyIcon raised"} -> 5
      [] OTHER -> 0

ReleaseCalls == SelectSeq(log, LAMBDA e : ReleaseRank(e) > 0)

\* C3: on every path after a successful resolve the release calls made so far
\* are in the order restore, DeleteObject, DeleteDC, ReleaseDC, DestroyIcon
\* (strictly increasing rank), and DeleteObject is never called on a bitmap that
\* is still selected into the memory DC.
C3_ReleaseOrder ==
    /\ \A i, j \in 1..Len(ReleaseCalls) :
          i < j => ReleaseRank(ReleaseCalls[i]) < ReleaseRank(ReleaseCalls[j])
    /\ \A i \in 1..Len(log) : log[i] # "DeleteObject while selected"

C3_Witness ==
    /\ pc = "raised"
    /\ err = "Exception"
    /\ hdc_mem # 0
    /\ ReleaseCalls = <<"SelectObject restore", "DeleteObject", "DeleteDC",
                        "ReleaseDC", "DestroyIcon">>

\* default_icon_to_image was entered (retries is set on entry and is positive)
ResolverRan == retries > 0

\* C4: if every SHGetFileInfoW call returned 0, the loop never exceeds its
\* budget, and once it is over it has made exactly retries attempts and
\* 2 * retries queries (a primary and a fallback one per attempt), holds no
\* handle, and the call returns the fallback path (the NoIcon outcome).
C4_AllFailExhausts ==
    /\ attempt <= retries
    /\ queries <= 2 * attempt
    /\ (ResolverRan /\ allFailed /\ pc \notin {"loop", "fallback", "check"})
          => /\ attempt = retries
             /\ queries = 2 * retries
             /\ hicon = NullHandle
             /\ pc \in {"afterloop", "returned", "exited"}
             /\ (pc # "afterloop" => result = FallbackPath)

C4_Witness ==
    /\ pc = "returned"
    /\ allFailed
    /\ retries = DefaultRetries
    /\ attempt = DefaultRetries
    /\ queries = 2 * DefaultRetries
    /\ result = FallbackPath

\* C5: once the shell has yielded its first in-range handle, at attempt k, the
\* resolver makes no further query (it is never again at a query position, the
\* attempt counter stays k and the last query made is the one that succeeded)
\* and the handle it goes on with is exactly that handle.
C5_AcceptsFirstValid ==
    firstValid # <<>>
        => /\ pc \notin {"loop", "fallback"}
           /\ attempt = firstValid[1]
           /\ hicon = firstValid[2]
           /\ shq[Len(shq)].res # 0

C5_Witness ==
    /\ pc = "createdc"
    /\ retries = DefaultRetries
    /\ firstValid # <<>>
    /\ firstValid[1] = 2
    /\ attempt = 2
    /\ hicon = firstValid[2]

\* the resolver ended without a handle
NoIcon == ResolverRan /\ hicon = NullHandle /\ pc \notin {"loop", "fallback", "check"}

\* C6: when the resolver ends with NoIcon the call returns the fallback path and
\* the renderer is not touched: no DC or bitmap is acquired, no draw, readback,
\* decode, resize, save or release call is made, nothing is written.
C6_NoIconShortCircuits ==
    NoIcon
        => /\ pc \in {"afterloop", "returned", "exited"}
           /\ (pc # "afterloop" => result = FallbackPath)
           /\ log = <<>>
           /\ \A r \in GdiResources : acq[r] = 0
           /\ \A r \in Resources : rel[r] = 0
           /\ buffer = <<>> /\ img = NoImage
           /\ ~written

C6_Witness ==
    /\ NoIcon
    /\ pc = "returned"
    /\ result = FallbackPath
    /\ ~allFailed

\* default_icon_to_image has ended, by a return or by an exception
DefaultEnded == ResolverRan /\ pc \in {"returned", "exited", "raised", "crashed"}

ResultContract ==
    /\ (result = output_path) <=> written
    /\ (result = FallbackPath) <=> (hicon = NullHandle /\ ~written)
    /\ ~(written /\ result = FallbackPath)
    /\ ErrorSurfaced => result \notin {output_path, FallbackPath}

\* C7 as stated: for every call, the returned value is output_path exactly when
\* an image was written, the fallback path exactly when the resolver ended
\* with NoIcon and nothing was written, never both, and neither on an error.
C7_ResultContract_AnyPath == DefaultEnded => ResultContract

\* C7, amended: the same, for every call whose output_path is not the fallback
\* path itself.
C7_ResultContract == (DefaultEnded /\ output_path # FallbackPath) => ResultContract

C7_Witness ==
    /\ DefaultEnded
    /\ output_path # FallbackPath
    /\ pc = "returned"
    /\ written
    /\ result = output_path

\* C8: in "default" mode with well-formed arguments, a renderer failure (bitmap
\* allocation or draw) does not crash the process: it exits with status 2.
C8_RenderFailureExits2 ==
    (entry = "main" /\ file_type = "default" /\ err \in {"ValueError", "WinError"}
        /\ pc \in {"raised", "crashed", "exited"})
        => pc # "crashed" /\ (pc = "exited" => exitStatus = 2)

\* the command line is not: a mode "exe" or "default", a source, an output, an integer
BadArguments(a) ==
    \/ Len(a) # 5
    \/ a[2] \notin {"exe", "default"}
    \/ \E i \in 1..Len(a[5]) : a[5][i] \notin Digits /\ ~(i = 1 /\ a[5][i] \in {"+", "-"})
    \/ \A i \in 1..Len(a[5]) : a[5][i] \notin Digits

\* C9: on bad arguments the command ends only by exit status 1, and neither
\* exe_to_image nor default_icon_to_image is entered: no shell query, no native
\* handle, no library call, no file written, no result.
C9_BadArgumentsExit1 ==
    (entry = "main" /\ BadArguments(argv))
        => /\ pc \in {"main_argc", "main_size", "main_match", "exited"}
           /\ (pc = "exited" => exitStatus = 1)
           /\ queries = 0 /\ attempt = 0 /\ shellIcons = 0
           /\ log = <<>>
           /\ \A r \in Resources : acq[r] = 0 /\ rel[r] = 0
           /\ ~written
           /\ result = Unset

C9_Witness ==
    /\ pc = "exited"
    /\ exitStatus = 1
    /\ Len(argv) = 5
    /\ argv[2] = "ico"
    /\ IsIntLiteral(argv[5])

\* a handle value within the valid range: not null and at most 2^32 - 1
InRange(h) == h # <<0, 0>> /\ h[1] >= 0 /\ h[1] < 65536 /\ h[2] >= 0 /\ h[2] < 65536

\* positions of the renderer and of everything that follows it in the call
RendererPcs ==
    {"createdc", "createbmp", "bmpfail_deldc", "bmpfail_reldc", "select", "draw",
     "readback", "decode", "resize", "save", "fin_restore", "fin_delbmp", "fin_deldc",
     "fin_reldc", "fin_icon", "fin_exit"}

C11_RendererHandleInRange ==
    /\ pc \in RendererPcs => InRange(hicon)
    /\ log # <<>> /\ ResolverRan => InRange(hicon)
    /\ pc = "afterloop" => (hicon = NullHandle \/ InRange(hicon))
    /\ (pc = "loop" /\ attempt < retries)
          => hicon = NullHandle /\ ENABLED QueryPrimary /\ ~ENABLED LoopExhausted

C11_RejectRepeats ==
    (pc = "check" /\ ~InRange(hicon))
        => /\ hicon' = NullHandle
           /\ pc' = "loop"
           /\ UNCHANGED <<attempt, queries, acq, rel, log>>

\* C11: the resolver accepts a handle only if it is not null and at most
\* 2^32 - 1: a handle outside that range is dropped and the loop goes back to
\* the primary query while attempts remain, and the renderer (every position
\* from GetDC on, every logged call) only ever runs with an in-range handle.
C11_OnlyInRangeAccepted == []C11_RendererHandleInRange /\ [][C11_RejectRepeats]_vars

C11_Witness ==
    /\ pc = "createdc"
    /\ hicon = MaxHandle
    /\ attempt = 2
    /\ shellIcons = 2

\* the current attempt has made all its queries
AttemptComplete == attempt >= 1 /\ pc # "fallback"

C12_QueryOrder ==
    /\ Len(shq) <= 2
    /\ attempt >= 1 => Len(shq) >= 1 /\ shq[1].kind = "primary"
    /\ Len(shq) = 2 => shq[2].kind = "fallback" /\ shq[1].res = 0
    /\ pc = "fallback" => Len(shq) = 1 /\ shq[1].res = 0
    /\ AttemptComplete => (Len(shq) = 2 <=> shq[1].res = 0)
    /\ attempt <= queries /\ queries <= 2 * attempt

\* the attempt that was just judged gave the loop no handle
AttemptGaveNothing == attempt >= 1 /\ hicon = NullHandle /\ pc \in {"loop", "afterloop"}

\* C12: in every attempt the primary query comes first and the fallback query
\* is made exactly when the primary returned 0, so an attempt makes one or two
\* queries; and an attempt gives no handle only if both queries returned 0 or
\* the handle of its successful query is outside the valid range, while an
\* attempt that gives a handle gives the one its successful query yielded.
C12_PrimaryThenFallback ==
    /\ C12_QueryOrder
    /\ AttemptGaveNothing
          => \/ Len(shq) = 2 /\ shq[1].res = 0 /\ shq[2].res = 0
             \/ shq[Len(shq)].res # 0 /\ ~InRange(shq[Len(shq)].h)
    /\ (AttemptComplete /\ hicon # NullHandle)
          => shq[Len(shq)].res # 0 /\ hicon = shq[Len(shq)].h

C12_Witness ==
    /\ pc = "loop"
    /\ AttemptGaveNothing
    /\ Len(shq) = 2
    /\ shq[2].res # 0
    /\ shq[2].h = <<65536, 0>>

InLog(e) == \E i \in 1..Len(log) : log[i] = e

\* C13: the screen DC, the memory DC and the bitmap are released before the
\* decoded image is handed to the resize / encode collaborator: none of them is
\* held while the image is resized or the output file is written.
C13_ReleasedBeforeResize ==
    pc \in {"resize", "save"} => \A r \in GdiResources : rel[r] = acq[r]

\* C14: when DrawIconEx reports failure the call fails with an error that
\* carries the platform's last error code, and nothing later happens: no
\* readback, decode, resize or write, and no path is returned.
C14_DrawFailureCarriesLastError ==
    err = "WinError"
        => /\ errCode = platformError
           /\ ~InLog("GetDIBits") /\ ~InLog("GetDIBits failed") /\ ~InLog("frombuffer")
           /\ ~InLog("resize") /\ ~InLog("save")
           /\ buffer = <<>> /\ img = NoImage
           /\ ~written
           /\ result = Unset
           /\ pc \notin {"returned", "exited"}

\* the part of C14 about the later steps alone
C14_DrawFailureSkipsRest ==
    err = "WinError"
        => /\ ~InLog("GetDIBits") /\ ~InLog("GetDIBits failed") /\ ~InLog("frombuffer")
           /\ ~InLog("resize") /\ ~InLog("save")
           /\ ~written /\ result = Unset
           /\ pc \notin {"returned", "exited"}

\* the cleanup block has made its DestroyIcon call
IconReleaseTried == InLog("DestroyIcon") \/ InLog("DestroyIcon raised")

\* the outcome of the call is decided by the guarded block alone
C15_ReleaseFailureSwallowed ==
    IconReleaseTried
        => /\ err \in {"none", "WinError", "Exception"}
           /\ err = "none" <=> written
           /\ err = "Exception" <=> (InLog("resize raised") \/ InLog("save raised"))
           /\ pc \in {"fin_exit", "returned", "raised", "exited", "crashed"}
           /\ pc \in {"returned", "exited"} => err = "none" /\ result = output_path
           /\ pc \in {"raised", "crashed"} => err # "none" /\ result = Unset

\* C15: a DestroyIcon failure during cleanup is reported (a line is printed by
\* the except clause, right after the failed call) and swallowed: the outcome of
\* the call is the same whether DestroyIcon succeeds or fails.
C15_ReleaseFailureLoggedAndSwallowed ==
    /\ C15_ReleaseFailureSwallowed
    /\ \A i \in 1..Len(log) :
          log[i] = "DestroyIcon raised"
              => i < Len(log) /\ log[i + 1] = "print DestroyIcon error"

\* C17: when default_icon_to_image has ended, every non-null icon handle the
\* shell handed out during resolution has been released (the one the resolver
\* returned by the cleanup block, any rejected one before the call ends).
C17_NoShellIconOutlivesCall ==
    DefaultEnded => rel["icon"] = shellIcons

\* the same for the calls that do not fail at CreateCompatibleBitmap (see C2)
C17_NoRejectedIconOutlivesCall ==
    (DefaultEnded /\ err # "ValueError") => rel["icon"] = shellIcons

\* C16: in "exe" mode no exception leaves exe_to_image: it returns output_path
\* exactly when extraction, open/resize and save all succeeded (and then the
\* file is written) and None otherwise, and main exits with status 0 in the
\* first case and 2 in the second.
C16_ExeNeverPropagates ==
    (entry = "main" /\ file_type = "exe")
        => /\ pc \notin {"raised", "crashed"}
           /\ err = "none"
           /\ (pc \in {"returned", "exited"} /\ result # Unset)
                 => /\ result \in {output_path, None}
                    /\ result = output_path <=> log = <<"get_icon", "resize", "save">>
                    /\ result = output_path <=> written
                    /\ pc = "exited" => exitStatus = (IF result = output_path THEN 0 ELSE 2)

C16_Witness ==
    /\ entry = "main"
    /\ file_type = "exe"
    /\ pc = "exited"
    /\ exitStatus = 2
    /\ result = None
    /\ log = <<"print IconExtractorError">>

\* C18: when the draw succeeded and a later step of the guarded block raised
\* (resize or save), then by the time the error has reached the caller the
\* bitmap, memory DC, screen DC and icon handle have each been released exactly
\* once, in the prescribed order, nothing was written and no path is returned.
C18_LaterFailureReleasesAll ==
    (ErrorSurfaced /\ err = "Exception")
        => /\ InLog("DrawIconEx")
           /\ InLog("resize raised") \/ InLog("save raised")
           /\ \A r \in Resources : acq[r] = 1 /\ rel[r] = 1
           /\ \E d \in {"DestroyIcon", "DestroyIcon raised"} :
                 ReleaseCalls = <<"SelectObject restore", "DeleteObject", "DeleteDC",
                                  "ReleaseDC", d>>
           /\ ~written
           /\ result = Unset

C18_Witness ==
    /\ pc = "crashed"
    /\ err = "Exception"
    /\ InLog("save raised")
    /\ \A r \in Resources : rel[r] = 1
    /\ InLog("DestroyIcon raised")

\* the draw succeeded and the readback has been or is about to be made
DrawSucceeded == pc = "readback" \/ InLog("GetDIBits") \/ InLog("GetDIBits failed")

Pixels4 == ByteVals \X ByteVals \X ByteVals \X ByteVals

CodecBuffers ==
    {PixelBuffer(ModelWidth, ModelHeight, f, n, px) :
        f \in ByteVals, n \in 0..(ModelWidth * ModelHeight - 1), px \in Pixels4}

InitCodec ==
    /\ pc = "decode"
    /\ entry = "direct"
    /\ argv = <<>>
    /\ file_type = Unset
    /\ output_path = "out.png"
    /\ icon_size = 48
    /\ retries = 1
    /\ attempt = 1
    /\ shq = <<[kind |-> "primary", res |-> 1, h |-> <<0, 1>>]>>
    /\ queries = 1
    /\ allFailed = FALSE
    /\ firstValid = <<1, <<0, 1>>>>
    /\ shellIcons = 1
    /\ hicon = <<0, 1>>
    /\ hdc = 11
    /\ hdc_mem = 12
    /\ hbmp = 13
    /\ old_bmp = 14
    /\ selected = 13
    /\ acq = [r \in Resources |-> 1]
    /\ rel = [r \in Resources |-> 0]
    /\ log = <<"GetDC", "CreateCompatibleDC", "CreateCompatibleBitmap", "SelectObject",
               "DrawIconEx", "GetDIBits">>
    /\ buffer \in CodecBuffers
    /\ img = NoImage
    /\ written = FALSE
    /\ result = Unset
    /\ err = "none"
    /\ errCode = -1
    /\ platformError = 0
    /\ exitStatus = -1

\* the same buffer decoded a second time
DecodeAgain ==
    /\ pc = "resize"
    /\ Len(SelectSeq(log, LAMBDA e : e = "frombuffer")) < 2
    /\ img' = Decode(buffer, ModelWidth, ModelHeight)
    /\ log' = Append(log, "frombuffer")
    /\ UNCHANGED <<pc, hdc, hdc_mem, hbmp, old_bmp, selected, acq, rel, buffer,
                   platformError>>
    /\ UNCHANGED <<callVars, resolverVars, outcomeVars, exitStatus>>

NextCodec ==
    \/ DecodeImage
    \/ DecodeAgain

SpecCodec == InitCodec /\ [][NextCodec]_vars

\* the program reaches the codec's initial state (with the sample buffer)
CodecStartReached ==
    /\ pc = "decode" /\ entry = "direct" /\ output_path = "out.png" /\ icon_size = 48
    /\ retries = 1 /\ attempt = 1 /\ shq = <<[kind |-> "primary", res |-> 1, h |-> <<0, 1>>]>>
    /\ queries = 1 /\ ~allFailed /\ firstValid = <<1, <<0, 1>>>> /\ shellIcons = 1
    /\ hicon = <<0, 1>> /\ hdc = 11 /\ hdc_mem = 12 /\ hbmp = 13 /\ old_bmp = 14
    /\ selected = 13 /\ acq = [r \in Resources |-> 1] /\ rel = [r \in Resources |-> 0]
    /\ log = <<"GetDC", "CreateCompatibleDC", "CreateCompatibleBitmap", "SelectObject",
               "DrawIconEx", "GetDIBits">>
    /\ buffer \in CodecBuffers /\ img = NoImage /\ ~written /\ result = Unset
    /\ err = "none" /\ errCode = -1 /\ platformError = 0 /\ exitStatus = -1
    /\ argv = <<>> /\ file_type = Unset

====
